---- MODULE Spec2Model ----
(***************************************************************************)
(* External sorter (src/src/sorter.rs): ExternalSorter::sort buffers the   *)
(* input, spills sorted segments to files of the sort directory, and       *)
(* SortedIterator merges the segments or drains the in-memory buffer.      *)
(* Items are u32 values encoded as 4 little-endian bytes, as the           *)
(* Sortable<u32> implementation of the source does.                        *)
(***************************************************************************)
EXTENDS Integers, Sequences, FiniteSets, Bags, TLC

\* ---------------------------------------------------------------- bounds
MaxLen == 4
MaxSize == 2
MaxFaults == 1

\* item values fed to the sorter: 256 encodes as <<0,1,0,0>>, so byte order
\* and numeric order disagree on 1 and 256
Items == {0, 1, 256}

\* ------------------------------------------------------- program constants
DefaultMaxSize == 10000
ItemBytes == 4

\* ------------------------------------------------------------ Option<T>
None == <<>>
Some(x) == <<x>>
Unwrap(o) == o[1]

\* ------------------------------------------------------ encode / decode
\* an encode that writes the most significant byte first
EncodeBigEndian(item) ==
    << (item \div 16777216) % 256, (item \div 65536) % 256,
       (item \div 256) % 256, item % 256 >>

Encode(item) ==
    << item % 256, (item \div 256) % 256,
       (item \div 65536) % 256, (item \div 16777216) % 256 >>

\* decode at file position off: read_u32 reads exactly 4 bytes or fails;
\* .ok() turns the failure into None
Decode(bytes, off) ==
    IF off + ItemBytes <= Len(bytes)
    THEN Some(bytes[off + 1] + 256 * bytes[off + 2]
              + 65536 * bytes[off + 3] + 16777216 * bytes[off + 4])
    ELSE None

\* a read that moves the position two items ahead
AdvanceSkip(bytes, off) ==
    IF off + 2 * ItemBytes <= Len(bytes) THEN off + 2 * ItemBytes ELSE Len(bytes)

\* file position after a decode attempt at off (read_exact consumes what is left)
Advance(bytes, off) ==
    IF off + ItemBytes <= Len(bytes) THEN off + ItemBytes ELSE Len(bytes)

\* the ways a decode can meet a read error: read_exact has consumed k bytes of
\* the item (a short read) when the next read fails
Faults == { Some(k) : k \in 0..(ItemBytes - 1) }

\* file position after a decode at off that failed k bytes into the item: the
\* reader is left inside the item
Stranded(bytes, off, k) ==
    IF off + k <= Len(bytes) THEN off + k ELSE Len(bytes)

\* ----------------------------------------------------------- buffer.sort()
RECURSIVE Insert(_, _)
Insert(s, x) ==
    IF s = <<>> THEN <<x>>
    ELSE IF x < Head(s) THEN <<x>> \o s
    ELSE <<Head(s)>> \o Insert(Tail(s), x)

\* a sort that leaves the vector as it is
SortVecNoop(s) == s

RECURSIVE SortVec(_)
SortVec(s) ==
    IF s = <<>> THEN <<>> ELSE Insert(SortVec(SubSeq(s, 1, Len(s) - 1)), s[Len(s)])

\* the bytes the encode loop hands to the buffered writer
RECURSIVE EncodeAll(_)
EncodeAll(buf) ==
    IF buf = <<>> THEN <<>> ELSE Encode(Head(buf)) \o EncodeAll(Tail(buf))

\* ---------------------------------------------- sort_and_write_segment
\* a segment write that names every file 0
sort_and_write_segment_name0(fs, segs, buf) ==
    [ files    |-> (0 :> EncodeAll(SortVec(buf))) @@ fs,
      segments |-> Append(segs, 0),
      buffer   |-> SortVec(buf) ]

\* a segment write that returns before the buffered writer has written the
\* last item to the file
sort_and_write_segment_unflushed(fs, segs, buf) ==
    [ files    |-> (Len(segs) :>
                      EncodeAll(SubSeq(SortVec(buf), 1, Len(buf) - 1))) @@ fs,
      segments |-> Append(segs, Len(segs)),
      buffer   |-> SortVec(buf) ]

\* fs maps a file name (the decimal segments.len()) to its bytes
sort_and_write_segment(fs, segs, buf) ==
    [ files    |-> (Len(segs) :> EncodeAll(SortVec(buf))) @@ fs,
      segments |-> Append(segs, Len(segs)),
      buffer   |-> SortVec(buf) ]

\* a tail of sort that flushes any residue, segments or not
FinishSortAlwaysFlush(fs, segs, buf) ==
    IF buf /= <<>>
    THEN LET w == sort_and_write_segment(fs, segs, buf)
         IN  [ files |-> w.files, segments |-> w.segments, buffer |-> w.buffer,
               pass_through_queue |-> None ]
    ELSE [ files |-> fs, segments |-> segs, buffer |-> <<>>,
           pass_through_queue |-> Some(SortVec(buf)) ]

\* a tail of sort that flushes whenever segments exist, residue or not
FinishSortFlushEmpty(fs, segs, buf) ==
    IF segs /= <<>>
    THEN LET w == sort_and_write_segment(fs, segs, buf)
         IN  [ files |-> w.files, segments |-> w.segments, buffer |-> w.buffer,
               pass_through_queue |-> None ]
    ELSE [ files |-> fs, segments |-> segs, buffer |-> <<>>,
           pass_through_queue |-> Some(SortVec(buf)) ]

\* the tail of sort: residue flush or pass-through queue
FinishSort(fs, segs, buf) ==
    IF buf /= <<>> /\ segs /= <<>>
    THEN LET w == sort_and_write_segment(fs, segs, buf)
         IN  [ files |-> w.files, segments |-> w.segments, buffer |-> w.buffer,
               pass_through_queue |-> None ]
    ELSE [ files |-> fs, segments |-> segs, buffer |-> <<>>,
           pass_through_queue |-> Some(SortVec(buf)) ]

\* ---------------------------------------------------- SortedIterator::new
\* bad: maps each segment index whose first decode fails on a read error to
\* the number of bytes the decode had consumed by then
NewIterator(fs, ptq, segs, bad) ==
    [ files |-> fs,
      pass_through_queue |-> ptq,
      segments |-> segs,
      offsets |-> [i \in 1..Len(segs) |->
                     IF i \in DOMAIN bad THEN Stranded(fs[segs[i]], 0, bad[i])
                     ELSE Advance(fs[segs[i]], 0)],
      next_values |-> [i \in 1..Len(segs) |->
                     IF i \in DOMAIN bad THEN None ELSE Decode(fs[segs[i]], 0)] ]

\* --------------------------------------------------- SortedIterator::next
\* a scan that keeps the largest head
RECURSIVE ScanLargest(_, _, _)
ScanLargest(nv, idx, smallest_idx) ==
    IF idx > Len(nv) THEN smallest_idx
    ELSE IF nv[idx] = None THEN ScanLargest(nv, idx + 1, smallest_idx)
    ELSE IF smallest_idx = None
            \/ Unwrap(nv[idx]) > Unwrap(nv[Unwrap(smallest_idx)])
         THEN ScanLargest(nv, idx + 1, Some(idx))
         ELSE ScanLargest(nv, idx + 1, smallest_idx)

\* a scan that lets a later equal head replace the smallest
RECURSIVE ScanLastTie(_, _, _)
ScanLastTie(nv, idx, smallest_idx) ==
    IF idx > Len(nv) THEN smallest_idx
    ELSE IF nv[idx] = None THEN ScanLastTie(nv, idx + 1, smallest_idx)
    ELSE IF smallest_idx = None
            \/ Unwrap(nv[idx]) <= Unwrap(nv[Unwrap(smallest_idx)])
         THEN ScanLastTie(nv, idx + 1, Some(idx))
         ELSE ScanLastTie(nv, idx + 1, smallest_idx)

\* the linear scan for the smallest head; idx runs over 1..Len(nv)
RECURSIVE Scan(_, _, _)
Scan(nv, idx, smallest_idx) ==
    IF idx > Len(nv) THEN smallest_idx
    ELSE IF nv[idx] = None THEN Scan(nv, idx + 1, smallest_idx)
    ELSE IF smallest_idx = None
            \/ Unwrap(nv[idx]) < Unwrap(nv[Unwrap(smallest_idx)])
         THEN Scan(nv, idx + 1, Some(idx))
         ELSE Scan(nv, idx + 1, smallest_idx)

SmallestIdx(nv) == Scan(nv, 1, None)

\* a next() that leaves the head in its slot when the refill finds nothing
IterNextKeepHead(it, fail) ==
    IF it.pass_through_queue /= None
    THEN LET q == Unwrap(it.pass_through_queue)
         IN  IF q = <<>>
             THEN [ it |-> it, value |-> None ]
             ELSE [ it |-> [it EXCEPT !.pass_through_queue = Some(Tail(q))],
                    value |-> Some(Head(q)) ]
    ELSE LET si == SmallestIdx(it.next_values)
         IN  IF si = None
             THEN [ it |-> it, value |-> None ]
             ELSE LET idx == Unwrap(si)
                      bytes == it.files[it.segments[idx]]
                      off == it.offsets[idx]
                  IN  [ it |-> [it EXCEPT
                                  !.next_values[idx] =
                                      IF fail /= None \/ Decode(bytes, off) = None
                                      THEN @ ELSE Decode(bytes, off),
                                  !.offsets[idx] =
                                      IF fail /= None
                                      THEN Stranded(bytes, off, Unwrap(fail))
                                      ELSE Advance(bytes, off)],
                        value |-> it.next_values[idx] ]

\* one call of next(); fail: None, or Some(k) when the decode that refills
\* the head meets a read error k bytes into the item and returns None
IterNext(it, fail) ==
    IF it.pass_through_queue /= None
    THEN LET q == Unwrap(it.pass_through_queue)
         IN  IF q = <<>>
             THEN [ it |-> it, value |-> None ]
             ELSE [ it |-> [it EXCEPT !.pass_through_queue = Some(Tail(q))],
                    value |-> Some(Head(q)) ]
    ELSE LET si == SmallestIdx(it.next_values)
         IN  IF si = None
             THEN [ it |-> it, value |-> None ]
             ELSE LET idx == Unwrap(si)
                      bytes == it.files[it.segments[idx]]
                      off == it.offsets[idx]
                  IN  [ it |-> [it EXCEPT
                                  !.next_values[idx] =
                                      IF fail /= None THEN None
                                      ELSE Decode(bytes, off),
                                  !.offsets[idx] =
                                      IF fail /= None
                                      THEN Stranded(bytes, off, Unwrap(fail))
                                      ELSE Advance(bytes, off)],
                        value |-> it.next_values[idx] ]

\* ------------------------------------------------------------------ state
VARIABLES
    max_size,            \* ExternalSorter.max_size
    sort_dir,            \* ExternalSorter.sort_dir: None or Some("user")
    pc,                  \* position of the caller in sort / the iterator's life
    iterator,            \* the input items sort has not pulled yet
    buffer,              \* sort's in-memory buffer
    segments,            \* the segment files, by name, in creation order
    tempdir,             \* the TempDir handle: None or Some("tmp")
    dirs,                \* directories that exist on the filesystem
    files,               \* file name -> bytes, the content of the sort directory
    pass_through_queue,  \* SortedIterator.pass_through_queue
    offsets,             \* read position of each segment file
    next_values,         \* SortedIterator.next_values
    emitted,             \* history: the items next() has returned, in order
    consumed,            \* history: the items sort has pulled, in order
    written,             \* history: the items of each completed segment write
    cut,                 \* history: segment indexes whose decode failed early
    fault,               \* history: the filesystem failure sort met, or "none"
    ended,               \* history: the last next() returned None
    residue,             \* history: sort flushed the residue as the last segment
    taken,               \* history: the items next() has returned, by segment
    handles              \* names of the files that have an open File handle

vars == << max_size, sort_dir, pc, iterator, buffer, segments, tempdir, dirs,
           files, pass_through_queue, offsets, next_values, emitted, consumed,
           written, cut, fault, ended, residue, taken, handles >>

config == << max_size, sort_dir >>
iter_state == << pass_through_queue, offsets, next_values >>
history == << emitted, consumed, written, cut, ended, residue, taken >>

NoFiles == [n \in {} |-> <<>>]

\* the input sequences a caller may hand to sort
Inputs == UNION { [1..n -> Items] : n \in 0..MaxLen }

\* ExternalSorter::new, before any call
Init ==
    /\ max_size = DefaultMaxSize
    /\ sort_dir = None
    /\ pc = "idle"
    /\ iterator = <<>>
    /\ buffer = <<>>
    /\ segments = <<>>
    /\ tempdir = None
    /\ dirs = {"user"}
    /\ files = NoFiles
    /\ pass_through_queue = None
    /\ offsets = <<>>
    /\ next_values = <<>>
    /\ emitted = <<>>
    /\ consumed = <<>>
    /\ written = <<>>
    /\ cut = {}
    /\ fault = "none"
    /\ ended = FALSE
    /\ residue = FALSE
    /\ taken = <<>>
    /\ handles = {}

\* ------------------------------------------------------------ configuration
set_max_size(m) ==
    /\ pc = "idle"
    /\ max_size' = m
    /\ UNCHANGED << sort_dir, pc, iterator, buffer, segments, tempdir, dirs, files,
                    iter_state, history, fault, handles >>

set_sort_dir ==
    /\ pc = "idle"
    /\ sort_dir' = Some("user")
    /\ UNCHANGED << max_size, pc, iterator, buffer, segments, tempdir, dirs, files,
                    iter_state, history, fault, handles >>

\* ------------------------------------------------------------------- sort
\* a drop that removes nothing
DirsAfterDropKeep(td, ds) == ds
\* a drop that removes the sort directory whoever owns it
DirsAfterDropAny(td, ds) == ds \ {"tmp", "user"}

\* what the drop of sort's locals leaves on the filesystem: a TempDir removes
\* its directory and everything in it, a caller's directory keeps its files
DirsAfterDrop(td, ds) == IF td /= None THEN ds \ {Unwrap(td)} ELSE ds
FilesAfterDrop(td, fs) == IF td /= None THEN NoFiles ELSE fs

\* sort leaves with Err (how = "err") or unwinds from a panic (how = "panic")
Leave(how, kind, td, ds, fs) ==
    /\ pc' = how
    /\ fault' = kind
    /\ tempdir' = None
    /\ dirs' = DirsAfterDrop(td, ds)
    /\ files' = FilesAfterDrop(td, fs)
    /\ handles' = {}

\* sort, up to the loop: the sort directory is chosen or created
SortBegin(input) ==
    /\ pc = "idle"
    /\ iterator' = input
    /\ pc' = "loop"
    /\ tempdir' = IF sort_dir /= None THEN None ELSE Some("tmp")
    /\ dirs' = IF sort_dir /= None THEN dirs ELSE dirs \cup {"tmp"}
    /\ UNCHANGED << config, buffer, segments, files, iter_state, history, fault,
                    handles >>

\* TempDir::new fails: sort returns the error before anything exists
SortBeginFail ==
    /\ pc = "idle"
    /\ sort_dir = None
    /\ Leave("err", "mkdir", None, dirs, files)
    /\ UNCHANGED << config, iterator, buffer, segments, iter_state, history >>

\* the spill test of the loop: the buffer has grown past max_size
ExceedsAtLimit(buf, max) == Len(buf) >= max
\* a spill test that lets the buffer grow one item further
ExceedsLate(buf, max) == Len(buf) > max + 1
Exceeds(buf, max) == Len(buf) > max

\* one round of the loop: pull an item and push it
Pull ==
    /\ pc = "loop"
    /\ iterator /= <<>>
    /\ buffer' = Append(buffer, Head(iterator))
    /\ consumed' = Append(consumed, Head(iterator))
    /\ iterator' = Tail(iterator)
    /\ pc' = IF Exceeds(buffer', max_size) THEN "spill" ELSE "loop"
    /\ UNCHANGED << config, segments, tempdir, dirs, files, iter_state,
                    emitted, written, cut, ended, fault, residue, taken, handles >>

\* the buffer exceeds max_size: write a segment and clear the buffer
Spill ==
    /\ pc = "spill"
    /\ LET w == sort_and_write_segment(files, segments, buffer)
       IN  /\ files' = w.files
           /\ segments' = w.segments
           /\ written' = Append(written, w.buffer)
           /\ handles' = handles \cup {w.segments[Len(w.segments)]}
    /\ buffer' = <<>>
    /\ pc' = "loop"
    /\ UNCHANGED << config, iterator, tempdir, dirs, iter_state,
                    emitted, consumed, cut, ended, fault, residue, taken >>

\* the bytes a failed segment write leaves in the file it had created: the
\* buffered writer hands bytes, not items, to the file, so what is left is a
\* prefix of n bytes of the encoded sorted buffer, which may end inside an item
PartialBytes(buf, n) == SubSeq(EncodeAll(SortVec(buf)), 1, n)

\* the byte counts a failed write can leave. A write that fails inside encode
\* happens before the item being encoded is buffered, and the writer dropped
\* by the panic flushes at most the items before it. When the final flush
\* fails, the writer dropped with the error flushes once more, so anything up
\* to the whole segment can reach the file.
LeftBytes(kind, buf) ==
    IF kind = "write" THEN 0..(ItemBytes * (Len(buf) - 1))
                      ELSE 0..(ItemBytes * Len(buf))

\* sort_and_write_segment fails: the open fails and sort returns Err; a write
\* fails inside encode (the buffered writer hands its full buffer to the file),
\* whose unwrap panics; the final flush of the buffered writer fails and sort
\* returns Err. The capacity of the buffered writer is not modelled: a write
\* may reach the file at any byte.
WriteFail(kind) ==
    /\ buffer /= <<>>
    /\ \E n \in LeftBytes(kind, buffer) :
         LET fs == IF kind = "open" THEN files
                   ELSE (Len(segments) :> PartialBytes(buffer, n)) @@ files
         IN  Leave(IF kind = "write" THEN "panic" ELSE "err", kind, tempdir, dirs, fs)
    /\ buffer' = SortVec(buffer)
    /\ UNCHANGED << config, iterator, segments, iter_state, history >>

SpillFail(kind) ==
    /\ pc = "spill"
    /\ WriteFail(kind)

\* the input is exhausted: flush the residue or build the pass-through queue
InputEnd ==
    /\ pc = "loop"
    /\ iterator = <<>>
    /\ LET f == FinishSort(files, segments, buffer)
       IN  /\ files' = f.files
           /\ segments' = f.segments
           /\ buffer' = f.buffer
           /\ pass_through_queue' = f.pass_through_queue
           /\ written' = IF f.pass_through_queue = None
                         THEN Append(written, f.buffer) ELSE written
           /\ residue' = (f.pass_through_queue = None)
           /\ handles' = IF f.pass_through_queue = None
                         THEN handles \cup {f.segments[Len(f.segments)]} ELSE handles
    /\ pc' = "new"
    /\ UNCHANGED << config, iterator, tempdir, dirs, offsets, next_values,
                    emitted, consumed, cut, ended, fault, taken >>

InputEndFail(kind) ==
    /\ pc = "loop"
    /\ iterator = <<>>
    /\ buffer /= <<>> /\ segments /= <<>>
    /\ WriteFail(kind)

\* SortedIterator::new: seek every segment to 0 and read its first item;
\* bad are the segments whose first decode fails on a read error, each with
\* the bytes consumed before the error
Construct ==
    /\ pc = "new"
    /\ \E failing \in SUBSET (1..Len(segments)) :
         /\ Cardinality(failing) <= MaxFaults
         /\ \A i \in failing : files[segments[i]] /= <<>>
         /\ \E bad \in [failing -> 0..(ItemBytes - 1)] :
              LET it == NewIterator(files, pass_through_queue, segments, bad)
              IN  /\ offsets' = it.offsets
                  /\ next_values' = it.next_values
         /\ cut' = failing
    /\ taken' = [i \in 1..Len(segments) |-> <<>>]
    /\ pc' = "iter"
    /\ UNCHANGED << config, iterator, buffer, segments, tempdir, dirs, files,
                    pass_through_queue, emitted, consumed, written, ended, fault,
                    residue, handles >>

\* a seek fails: new returns Err and its parameters are dropped
ConstructFail ==
    /\ pc = "new"
    /\ segments /= <<>>
    /\ Leave("err", "seek", tempdir, dirs, files)
    /\ pass_through_queue' = None
    /\ UNCHANGED << config, iterator, buffer, segments, offsets, next_values,
                    history >>

\* ------------------------------------------------------------- the iterator
IterOf == [ files |-> files, pass_through_queue |-> pass_through_queue,
            segments |-> segments, offsets |-> offsets,
            next_values |-> next_values ]

\* the segment next() is about to refill, if it is in merge mode and has a head
Refilled ==
    IF pass_through_queue /= None THEN None ELSE SmallestIdx(next_values)

\* items of a segment left behind its read position
Unread(i) == (Len(files[segments[i]]) - offsets[i]) \div ItemBytes

Next_(fail) ==
    /\ pc = "iter"
    /\ fail /= None => /\ Refilled /= None
                       /\ Unread(Unwrap(Refilled)) > 0
                       /\ Cardinality(cut) < MaxFaults
    /\ LET r == IterNext(IterOf, fail)
       IN  /\ pass_through_queue' = r.it.pass_through_queue
           /\ offsets' = r.it.offsets
           /\ next_values' = r.it.next_values
           /\ emitted' = IF r.value = None THEN emitted
                         ELSE Append(emitted, Unwrap(r.value))
           /\ ended' = (r.value = None)
    /\ cut' = IF fail /= None THEN cut \cup {Unwrap(Refilled)} ELSE cut
    /\ taken' = IF Refilled = None THEN taken
                 ELSE [taken EXCEPT ![Unwrap(Refilled)] =
                          Append(@, Unwrap(next_values[Unwrap(Refilled)]))]
    /\ UNCHANGED << config, pc, iterator, buffer, segments, tempdir, dirs, files,
                    consumed, written, fault, residue, handles >>

\* the iterator is dropped: the readers close, the TempDir removes its directory
Drop ==
    /\ pc = "iter"
    /\ pc' = "dropped"
    /\ dirs' = DirsAfterDrop(tempdir, dirs)
    /\ files' = FilesAfterDrop(tempdir, files)
    /\ tempdir' = None
    /\ handles' = {}
    /\ UNCHANGED << config, iterator, buffer, segments, iter_state, history, fault >>

Next ==
    \/ \E m \in 0..MaxSize : set_max_size(m)
    \/ set_sort_dir
    \/ \E input \in Inputs : SortBegin(input)
    \/ SortBeginFail
    \/ Pull
    \/ Spill
    \/ \E kind \in {"open", "write", "flush"} : SpillFail(kind)
    \/ InputEnd
    \/ \E kind \in {"open", "write", "flush"} : InputEndFail(kind)
    \/ Construct
    \/ ConstructFail
    \/ \E fail \in {None} \cup Faults : Next_(fail)
    \/ Drop

Spec == Init /\ [][Next]_vars

\* ------------------------------------------- the whole pipeline, as a fold
\* the loop of sort over a whole input
RECURSIVE RunLoop(_, _, _, _, _)
RunLoop(input, max, fs, segs, buf) ==
    IF input = <<>> THEN [ files |-> fs, segments |-> segs, buffer |-> buf ]
    ELSE LET b == Append(buf, Head(input))
         IN  IF Exceeds(b, max)
             THEN LET w == sort_and_write_segment(fs, segs, b)
                  IN  RunLoop(Tail(input), max, w.files, w.segments, <<>>)
             ELSE RunLoop(Tail(input), max, fs, segs, b)

\* sort(input) with no failure: the iterator it returns
SortOf(input, max) ==
    LET l == RunLoop(input, max, NoFiles, <<>>, <<>>)
        f == FinishSort(l.files, l.segments, l.buffer)
    IN  NewIterator(f.files, f.pass_through_queue, f.segments, <<>>)

\* the iterator drained to its end, every decode succeeding
RECURSIVE Collect(_)
Collect(it) ==
    LET r == IterNext(it, None)
    IN  IF r.value = None THEN <<>> ELSE <<Unwrap(r.value)>> \o Collect(r.it)

SortedOutput(input, max) == Collect(SortOf(input, max))

\* ---------------------------------------------------------------- helpers
Range(s) == { s[i] : i \in DOMAIN s }
BagOf(s) == [ v \in Range(s) |-> Cardinality({ i \in DOMAIN s : s[i] = v }) ]
IsSorted(s) == \A i \in 1..(Len(s) - 1) : s[i] <= s[i + 1]
Perms(s) == LET b == BagOf(s) IN { t \in [1..Len(s) -> Range(s)] : BagOf(t) = b }
CeilDiv(a, b) == (a + b - 1) \div b
RECURSIVE Flatten(_)
Flatten(ss) == IF ss = <<>> THEN <<>> ELSE Head(ss) \o Flatten(Tail(ss))

\* a file read from offset off to its end, one decode after the other
RECURSIVE DecodeFrom(_, _)
DecodeFrom(bytes, off) ==
    LET item == Decode(bytes, off)
    IN  IF item = None THEN <<>>
        ELSE <<Unwrap(item)>> \o DecodeFrom(bytes, Advance(bytes, off))

\* the slice of the input that segment i was written from
Before(i) == Len(Flatten(SubSeq(written, 1, i - 1)))
Chunk(i) == SubSeq(consumed, Before(i) + 1, Before(i) + Len(written[i]))

\* sort has returned an iterator
Returned == pc \in {"iter", "dropped"}
\* the iterator was drained to end-of-stream and every decode succeeded
Drained == Returned /\ ended /\ cut = {}

\* ------------------------------------------------------------------ claims

\* C1: when sort succeeds, the iterator drained to end-of-stream has emitted
\* exactly the multiset of items sort consumed from the input.
C1_MultisetPreserved ==
    Drained => BagOf(emitted) = BagOf(consumed)

\* C2: any two consecutive items returned by next() are in non-decreasing
\* order, in pass-through mode and in merge mode.
C2_Sortedness == IsSorted(emitted)

C2_Witness ==
    /\ pc = "iter" /\ pass_through_queue = None /\ Len(segments) >= 2
    /\ Len(emitted) >= 3 /\ emitted[1] < emitted[3]
    /\ consumed[1] > consumed[Len(consumed)]

\* C3: the iterator sort returns has a pass-through queue exactly when no
\* segment was written, and none whenever at least one segment exists.
C3_QueueIffNoRuns ==
    Returned => ((pass_through_queue /= None) <=> (Len(segments) = 0))

\* C4 as stated: an input of N > max_size items (max_size >= 1) gives
\* ceil((N - 1) / max_size) segments.
C4_SpillCountStated ==
    (Returned /\ max_size >= 1 /\ Len(consumed) > max_size)
        => Len(segments) = CeilDiv(Len(consumed) - 1, max_size)

\* C4 amended: an input of N > max_size items gives ceil(N / (max_size + 1))
\* segments.
C4_SpillCount ==
    (Returned /\ Len(consumed) > max_size)
        => Len(segments) = CeilDiv(Len(consumed), max_size + 1)

C4_Witness ==
    /\ pc = "iter" /\ max_size = 1 /\ Len(consumed) = 4 /\ Len(segments) = 2

\* C5: for an input of N <= max_size items sort never writes a segment: no
\* file is created, the segment count is 0 and the sorted buffer is handed
\* over as the pass-through queue.
C5_PassThroughShortcut ==
    (pc /= "idle" /\ Len(consumed) + Len(iterator) <= max_size)
        => /\ pc /= "spill"
           /\ segments = <<>> /\ written = <<>> /\ files = NoFiles
           /\ Returned => /\ pass_through_queue /= None
                          /\ emitted \o Unwrap(pass_through_queue) = SortVec(consumed)

C5_Witness ==
    /\ pc = "iter" /\ max_size = 2 /\ Len(consumed) = 2
    /\ consumed[1] > consumed[2] /\ emitted = <<>>
    /\ pass_through_queue = Some(<<consumed[2], consumed[1]>>)

\* C6: any filesystem failure during sort makes sort return an error value
\* at that step, and no iterator is returned.
C6_FailureReturnsErr ==
    fault /= "none" => pc = "err"

\* C7: once sort has returned an error, a scratch directory the sorter
\* created is gone with every segment file in it, and a caller-supplied
\* directory is still there.
C7_ErrorCleanup ==
    pc = "err" => /\ sort_dir = None => ("tmp" \notin dirs /\ files = NoFiles)
                  /\ sort_dir /= None => "user" \in dirs

C7_Witness ==
    /\ pc = "err" /\ sort_dir = None /\ Len(written) >= 1 /\ fault = "flush"

\* C8: a scratch directory the sorter created exists from the first spill
\* until the iterator is dropped and is gone after the drop, whenever the
\* drop happens; a caller-supplied directory is never deleted.
C8_ScratchLifetime ==
    /\ (sort_dir = None /\ segments /= <<>> /\ pc \in {"loop", "spill", "new", "iter"})
          => /\ "tmp" \in dirs
             /\ \A i \in 1..Len(segments) : segments[i] \in DOMAIN files
    /\ (sort_dir = None /\ pc = "dropped") => ("tmp" \notin dirs /\ files = NoFiles)
    /\ "user" \in dirs

C8_Witness ==
    /\ pc = "dropped" /\ sort_dir = None /\ Len(segments) >= 2
    /\ emitted /= <<>> /\ ~ended /\ "tmp" \notin dirs

\* C9: for a fixed max_size, every permutation of the input gives the output
\* sequence the iterator has emitted for this input.
C9_PermutationInvariant ==
    Drained => \A p \in Perms(consumed) : SortedOutput(p, max_size) = emitted

C9_Witness ==
    /\ Drained /\ Len(segments) >= 2 /\ Len(emitted) >= 3
    /\ consumed[1] > consumed[2] /\ emitted[1] < emitted[3]

\* C10: a segment whose decode returned nothing before its real end stays
\* exhausted, and the items emitted are non-decreasing, a sub-multiset of
\* the input, and at end-of-stream include every item of every other segment.
C10_EarlyExhaustion ==
    (Returned /\ cut /= {})
        => /\ \A i \in cut : next_values[i] = None
           /\ IsSorted(emitted)
           /\ BagOf(emitted) \sqsubseteq BagOf(consumed)
           /\ ended => BagOf(Flatten([i \in 1..Len(written) |->
                                        IF i \in cut THEN <<>> ELSE written[i]]))
                          \sqsubseteq BagOf(emitted)

\* C11: the buffer never holds more than max_size + 1 items, and at most
\* max_size items whenever the next item is about to be pulled; it holds
\* max_size + 1 exactly when a spill is due.
C11_BufferBound ==
    /\ Len(buffer) <= max_size + 1
    /\ pc = "loop" => Len(buffer) <= max_size
    /\ pc = "spill" => Len(buffer) = max_size + 1

C11_Witness ==
    /\ pc = "spill" /\ max_size = 1 /\ Len(buffer) = 2 /\ segments /= <<>>

\* C12: every segment spilled while input is pulled holds exactly
\* max_size + 1 items, the residue segment, when written, holds between 1
\* and max_size items, and no segment is empty.
C12_RunSizes ==
    /\ Len(written) = Len(segments)
    /\ \A i \in 1..Len(written) :
         /\ IF residue /\ i = Len(written)
            THEN Len(written[i]) \in 1..max_size
            ELSE Len(written[i]) = max_size + 1
         /\ segments[i] \in DOMAIN files
               => Len(files[segments[i]]) = ItemBytes * Len(written[i])

C12_Witness ==
    /\ pc = "iter" /\ max_size = 1 /\ residue
    /\ Len(written) = 2 /\ Len(written[1]) = 2 /\ Len(written[2]) = 1

\* every completed segment file holds exactly the items its flush took from
\* the buffer, encoded back to back in non-decreasing order
RunsFaithful ==
    \A i \in 1..Len(written) :
        /\ IsSorted(written[i])
        /\ BagOf(written[i]) = BagOf(Chunk(i))
        /\ segments[i] \in DOMAIN files
              => /\ Len(files[segments[i]]) = ItemBytes * Len(written[i])
                 /\ DecodeFrom(files[segments[i]], 0) = written[i]

\* a flush has just returned: every consumed item is in a segment
FlushedAll == written /= <<>> /\ Len(Flatten(written)) = Len(consumed)

\* C13 as stated: every completed segment file holds exactly the items of
\* the buffer at its flush, in non-decreasing order, and the buffer is empty
\* after the flush.
C13_FlushStated ==
    /\ RunsFaithful
    /\ (pc \in {"loop", "new"} /\ FlushedAll) => buffer = <<>>

\* C13 amended: the segment files are as stated; the buffer is empty after
\* every flush made while input is pulled, and after the residue flush it
\* still holds the sorted residue.
C13_Flush ==
    /\ RunsFaithful
    /\ (pc = "loop" /\ FlushedAll) => buffer = <<>>
    /\ (pc = "new" /\ residue) => buffer = written[Len(written)]

C13_Witness ==
    /\ pc = "new" /\ residue /\ max_size = 1 /\ Len(written) = 2
    /\ consumed[1] > consumed[2] /\ buffer = written[2] /\ buffer /= <<>>

\* the i-th flush, counting from 0, wrote the file named i
RunNames ==
    /\ Len(written) = Len(segments)
    /\ \A i \in 1..Len(segments) :
         /\ segments[i] = i - 1
         /\ segments[i] \in DOMAIN files
               => DecodeFrom(files[segments[i]], 0) = written[i]

\* a step leaves every completed segment file as it is, and only the end of
\* sort by an error or the drop of the iterator removes one
RunsImmutable ==
    \A i \in 1..Len(segments) :
        /\ segments'[i] = segments[i]
        /\ (segments[i] \in DOMAIN files /\ pc' \in {"loop", "spill", "new", "iter"})
              => segments[i] \in DOMAIN files'
        /\ (segments[i] \in DOMAIN files /\ segments[i] \in DOMAIN files')
              => files'[segments[i]] = files[segments[i]]

\* C14: the i-th flush writes the file named i, so the k segments are named
\* 0..k-1, all distinct, and no later flush, iterator construction or next()
\* changes a segment file whose flush has returned.
C14_RunNaming == []RunNames /\ [][RunsImmutable]_vars

C14_Witness ==
    /\ pc = "iter" /\ segments = <<0, 1>> /\ pass_through_queue = None
    /\ Len(emitted) >= 2 /\ written[1] /= written[2]

\* the head slot of segment i as a sequence, and the items behind its cursor
HeadSeq(i) == IF next_values[i] = None THEN <<>> ELSE <<Unwrap(next_values[i])>>
Behind(i) == DecodeFrom(files[segments[i]], offsets[i])

\* C15: at construction every non-empty segment has its first item in its
\* head slot and an empty segment starts exhausted; after any number of
\* next() calls, for every segment whose decodes succeeded, the items emitted
\* from it, then its head, then the items behind its cursor are the segment's
\* contents in order.
C15_RunCursor ==
    /\ NewIterator((0 :> <<>>), None, <<0>>, <<>>).next_values = <<None>>
    /\ pc = "iter" =>
         \A i \in (1..Len(segments)) \ cut :
            /\ taken[i] = <<>> => next_values[i] = Some(written[i][1])
            /\ taken[i] \o HeadSeq(i) \o Behind(i) = written[i]

C15_Witness ==
    /\ pc = "iter" /\ pass_through_queue = None /\ cut = {}
    /\ Len(written[1]) = 3 /\ Len(taken[1]) = 1
    /\ next_values[1] /= None /\ Len(Behind(1)) = 1
    /\ Len(taken[2]) = 1 /\ next_values[2] = None

\* a next() call in merge mode with some head left
MergeCall ==
    /\ pc = "iter" /\ pc' = "iter" /\ pass_through_queue = None
    /\ \E j \in 1..Len(segments) : next_values[j] /= None

\* the call emits the head of segment i, the lowest-indexed minimal head, and
\* touches no other segment
EmitsFrom(i) ==
    /\ next_values[i] /= None
    /\ emitted' = Append(emitted, Unwrap(next_values[i]))
    /\ taken' = [taken EXCEPT ![i] = Append(@, Unwrap(next_values[i]))]
    /\ \A j \in 1..Len(segments) :
          next_values[j] /= None
             => /\ Unwrap(next_values[i]) <= Unwrap(next_values[j])
                /\ j < i => Unwrap(next_values[i]) < Unwrap(next_values[j])
    /\ \A j \in (1..Len(segments)) \ {i} :
          next_values'[j] = next_values[j] /\ offsets'[j] = offsets[j]
    /\ next_values'[i] /= next_values[i] \/ offsets'[i] /= offsets[i]
    /\ files' = files /\ segments' = segments

\* C16: in merge mode each next() emits the minimal head, the lowest-indexed
\* one among equal heads, and changes the head and cursor of that segment only.
C16_MergeSelection ==
    [][MergeCall => \E i \in 1..Len(segments) : EmitsFrom(i)]_vars

C16_Witness ==
    /\ pc = "iter" /\ pass_through_queue = None /\ Len(segments) = 2
    /\ Len(emitted) = 1 /\ taken[1] = emitted /\ taken[2] = <<>>
    /\ next_values[2] = Some(emitted[1]) /\ next_values[1] /= None

\* whenever the next item is about to be pulled, every segment written so far
\* is complete on file, and nothing is read while sort is still writing
WriteBeforeRead ==
    /\ pc \in {"loop", "new"} =>
          \A i \in 1..Len(segments) :
              /\ segments[i] \in DOMAIN files
              /\ DecodeFrom(files[segments[i]], 0) = written[i]
    /\ pc = "loop" => Len(Flatten(written)) + Len(buffer) = Len(consumed)
    /\ pc \in {"idle", "loop", "spill", "new"} =>
          /\ offsets = <<>> /\ next_values = <<>> /\ emitted = <<>>

\* the sorter alone writes the files and the iterator alone reads them
RolesSeparate ==
    /\ (files' /= files /\ pc' \in {"loop", "spill", "new", "iter"})
          => (pc \in {"loop", "spill"} /\ pc' \in {"loop", "new"}
              /\ offsets' = offsets /\ next_values' = next_values)
    /\ (offsets' /= offsets \/ next_values' /= next_values)
          => (pc \in {"new", "iter"} /\ pc' = "iter" /\ files' = files)

\* the File a segment write opened is still open, and is the only handle of
\* its file, until sort fails or the iterator is dropped
HandlesKept ==
    /\ pc \in {"loop", "spill", "new", "iter"} => handles = Range(segments)
    /\ pc \in {"idle", "err", "panic", "dropped"} => handles = {}

\* C17 as stated: segment files are written by the sorter and then read by
\* the iterator, each complete before the next item is inserted, none read
\* before all are written, and the writer has closed every file before the
\* reader opens it.
C17_WriteThenReadStated ==
    /\ WriteBeforeRead
    /\ pc = "new" => handles = {}

\* C17 amended: as stated, but the writer does not close the file: the File
\* it opened stays open and is the one the iterator seeks to 0 and reads.
C17_WriteThenRead ==
    [](WriteBeforeRead /\ HandlesKept) /\ [][RolesSeparate]_vars

C17_Witness ==
    /\ pc = "iter" /\ handles = {0, 1} /\ pass_through_queue = None
    /\ emitted /= <<>> /\ offsets[1] > 0

\* the items next() can still return: the queue, or the heads and what lies
\* behind the cursors of the segments that have a head (a segment whose head
\* is empty is never read again)
IterWork ==
    IF pass_through_queue /= None THEN Len(Unwrap(pass_through_queue))
    ELSE Len(Flatten([i \in 1..Len(segments) |->
                        IF next_values[i] = None THEN <<>>
                        ELSE HeadSeq(i) \o Behind(i)]))

\* at end-of-stream one more next() returns None and changes nothing
EndIsStable ==
    (pc = "iter" /\ ended)
        => /\ IterNext(IterOf, None).value = None
           /\ IterNext(IterOf, None).it = IterOf

\* a next() call keeps the end once reached, and otherwise emits one item and
\* takes it from what the iterator holds; a refill that fails takes the rest
\* of its segment with it
NextStep ==
    (pc = "iter" /\ pc' = "iter")
        => /\ ended => (ended' /\ UNCHANGED << iter_state, emitted >>)
           /\ emitted' /= emitted
                 => /\ Len(emitted') = Len(emitted) + 1
                    /\ IterWork' < IterWork
                    /\ cut' = cut => IterWork' = IterWork - 1

\* the steps a sort and the drain of its iterator still have to take, at most
StepsLeft ==
    CASE pc = "loop"  -> Len(consumed) + 3 * Len(iterator) + 4
      [] pc = "spill" -> Len(consumed) + 3 * Len(iterator) + 5
      [] pc = "new"   -> Len(consumed) + 3
      [] pc = "iter"  -> IterWork + (IF ended THEN 1 ELSE 2)
      [] OTHER        -> 0

\* every step of a sort and of its iterator uses up one of the steps left
Decreases == pc /= "idle" => (StepsLeft' < StepsLeft /\ StepsLeft' >= 0)

\* C18: sort terminates and the iterator reaches end-of-stream after finitely
\* many next() calls: every step of sort and of the drain uses up one of a
\* finite number of steps left, every next() before the end takes one item
\* from a finite stock, and after end-of-stream next() keeps returning
\* end-of-stream and leaves the iterator unchanged.
C18_Termination ==
    /\ []EndIsStable
    /\ [][NextStep /\ Decreases]_vars

C18_Witness ==
    /\ pc = "iter" /\ ended /\ pass_through_queue = None
    /\ Len(segments) = 2 /\ Len(emitted) = Len(consumed) /\ Len(emitted) >= 3

====
